---- MODULE Spec2Model ----
(***************************************************************************)
(* A model of the modal manager of src/index.js (the Modal singleton):     *)
(* the stack of open modal ids, the metadata table, the two flags, and the *)
(* parts of the browser the code talks to: the timer queue (setTimeout),   *)
(* the session history (pushState / back / popstate), the click listeners  *)
(* of each backdrop, the body scroll style and the focused element.        *)
(*                                                                         *)
(* Every function of the source is an operator from a program state (a     *)
(* record S) to the program state after the call; every action of Next is  *)
(* one task of the browser's event loop: a call of the public API, a key   *)
(* press, a click, a back gesture, a timer firing or a popstate delivery.  *)
(*                                                                         *)
(* The browser is modelled as the HTML standard describes it:              *)
(*  - history.back() queues a traversal; each queued traversal runs later, *)
(*    as a task of its own, and delivers one popstate event;               *)
(*  - a timer callback runs as a task of its own; two timers run in the    *)
(*    order of their expiry, and the time between two tasks is arbitrary;  *)
(*  - a click runs the listeners attached to the backdrop in the order in  *)
(*    which they were added;                                               *)
(*  - element.focus() moves the focus to the element.                      *)
(* The inline transition styles (src/index.js:106-109) are written and     *)
(* never read by the code, and are left out.                               *)
(***************************************************************************)
EXTENDS Integers, Sequences, FiniteSets, TLC

\* ------------------------------------------------------------- bounds

\* open() calls that find their container, over a whole behaviour
MaxOpens == 2
\* timers pending at once
MaxTimers == 2
\* history.back() traversals queued at once
MaxBacks == 2

\* ------------------------------------------------- program constants

__zIndex == 1000
__duration == 300

\* ------------------------------------------------------- the page

\* The ids the calls are made with; "missing-id" has no element.
Ids == {"m1", "m2", "missing-id"}

\* document.getElementById(id) is non-null exactly for these.
Containers == {"m1", "m2"}

\* Payload values, written as JavaScript literals; "obj" is an object.
Payloads == {"null", "0", "false", "''", "obj"}

\* JavaScript ToBoolean of a payload value.
Truthy(v) == v \notin {"null", "0", "false", "''"}

\* Custom animation durations in ms, the default among them.
Durations == {__duration, 100}

Keys == {"Escape", "Enter"}

ClickTargets == {"backdrop", "content"}

\* An options object: `given` holds the properties the caller set; the
\* others are undefined, and the destructuring of open() defaults them.
NoOptions ==
    [given |-> {}, focus |-> TRUE, closable |-> TRUE, backdropClose |-> TRUE,
     data |-> "null", duration |-> __duration]

\* The options of the calls: none, and each property that decides a
\* dismissal or the order of the timers set to its non-default value.
OptionSets ==
    {NoOptions}
    \cup {[NoOptions EXCEPT !.given = {"closable"}, !.closable = FALSE]}
    \cup {[NoOptions EXCEPT !.given = {"backdropClose"}, !.backdropClose = FALSE]}
    \cup {[NoOptions EXCEPT !.given = {"duration"}, !.duration = d] :
            d \in Durations \ {__duration}}

\* The options of the calls that pass a payload, and none.
DataOptionSets ==
    {NoOptions}
    \cup {[NoOptions EXCEPT !.given = {"data"}, !.data = p] : p \in Payloads}

\* The options of the calls that decide the focus, and none.
FocusOptionSets ==
    {NoOptions}
    \cup {[NoOptions EXCEPT !.given = {"focus"}, !.focus = FALSE]}

\* const { k = default } = options
Option(options, k, default) ==
    IF k \in options.given THEN options[k] ELSE default

\* ------------------------------------------------------- sequences

Range(s) == {s[i] : i \in 1..Len(s)}

RemoveAt(s, i) == SubSeq(s, 1, i - 1) \o SubSeq(s, i + 1, Len(s))

\* Array.prototype.indexOf, 1-based; 0 for "not found" (-1 in the source)
indexOf(s, x) ==
    IF x \in Range(s) THEN CHOOSE i \in 1..Len(s) :
                              s[i] = x /\ \A j \in 1..(i - 1) : s[j] # x
    ELSE 0

Reverse(s) == [i \in 1..Len(s) |-> s[Len(s) + 1 - i]]

\* ------------------------------------------------------- the state

VARIABLES
    __stack,                \* ids of the open modals, topmost last
    __meta,                 \* id -> metadata, for the ids that have an entry
    __popped,
    __transitioning,
    timers,                 \* pending setTimeout callbacks, in scheduling order
    histDepth,              \* history entries pushed by open and not yet popped
    pendingBacks,           \* history.back() traversals queued, not yet run
    zIndex,                 \* backdrop.style.zIndex of each container
    classOpen,              \* backdrop.classList.contains("open")
    overflow,               \* document.body.style.overflow
    listeners,              \* the click listeners attached to each backdrop
    __wabModalClickHandler, \* index in listeners of the recorded handler, 0: none
    activeElement,          \* document.activeElement
    focusable,              \* containers whose .modal holds a focusable element
    opens,                  \* open() calls that found their container so far
    track                   \* a call made on a settled page, and what followed

progVars ==
    <<__stack, __meta, __popped, __transitioning, timers, histDepth,
      pendingBacks, zIndex, classOpen, overflow, listeners,
      __wabModalClickHandler, activeElement, focusable>>

vars == <<progVars, opens, track>>

\* The program state as one record, for the operators below. `dispatched`
\* collects the events a task dispatches, in order; it is empty when the
\* task starts.
State ==
    [__stack |-> __stack, __meta |-> __meta, __popped |-> __popped,
     __transitioning |-> __transitioning, timers |-> timers,
     histDepth |-> histDepth, pendingBacks |-> pendingBacks,
     zIndex |-> zIndex, classOpen |-> classOpen, overflow |-> overflow,
     listeners |-> listeners,
     __wabModalClickHandler |-> __wabModalClickHandler,
     activeElement |-> activeElement, focusable |-> focusable,
     dispatched |-> <<>>]

Becomes(S) ==
    /\ __stack' = S.__stack
    /\ __meta' = S.__meta
    /\ __popped' = S.__popped
    /\ __transitioning' = S.__transitioning
    /\ timers' = S.timers
    /\ histDepth' = S.histDepth
    /\ pendingBacks' = S.pendingBacks
    /\ zIndex' = S.zIndex
    /\ classOpen' = S.classOpen
    /\ overflow' = S.overflow
    /\ listeners' = S.listeners
    /\ __wabModalClickHandler' = S.__wabModalClickHandler
    /\ activeElement' = S.activeElement
    /\ focusable' = S.focusable

\* ------------------------------------------------------- the code

dispatch(S, eventName, modalId, data) ==
    [S EXCEPT !.dispatched =
        Append(@, [name |-> eventName, id |-> modalId, data |-> data])]

\* setTimeout(callback, duration): the callback's kind and what it captured
setTimeout(S, kind, id, duration, focus, opener, data) ==
    [S EXCEPT !.timers =
        Append(@, [kind |-> kind, id |-> id, duration |-> duration,
                   focus |-> focus, opener |-> opener, data |-> data])]

\* open() past its first two lines: the container exists
openContainer(S, id, options) ==
    LET focus == Option(options, "focus", TRUE)
        closable == Option(options, "closable", TRUE)
        backdropClose == Option(options, "backdropClose", TRUE)
        data == Option(options, "data", "null")
        duration == Option(options, "duration", __duration)
        opener == S.activeElement
        entry == [focus |-> focus, closable |-> closable,
                  backdropClose |-> backdropClose, opener |-> opener,
                  duration |-> duration, data |-> data]
        S1 == [S EXCEPT !.histDepth = @ + 1,
                        !.__popped = FALSE,
                        !.__transitioning = TRUE,
                        !.__meta = [k \in DOMAIN @ \cup {id} |->
                                       IF k = id THEN entry ELSE @[k]],
                        !.__stack = Append(@, id)]
        S2 == dispatch(S1, "wab.modal.open", id, data)
        S3 == [S2 EXCEPT !.zIndex[id] = __zIndex + Len(S2.__stack),
                         !.classOpen[id] = TRUE,
                         !.overflow = "hidden",
                         !.listeners[id] = Append(@, backdropClose),
                         !.__wabModalClickHandler[id] =
                             Len(S2.listeners[id]) + 1]
    IN  setTimeout(S3, "opened", id, duration, focus, "body", data)

\* open with its test of the container made after the history entry is
\* pushed and the flags are set
openLateTest(S, id, options) ==
    IF id \notin Containers
    THEN [S EXCEPT !.histDepth = @ + 1,
                   !.__popped = FALSE,
                   !.__transitioning = TRUE]
    ELSE openContainer(S, id, options)

open(S, id, options) ==
    IF id \notin Containers THEN S
    ELSE openContainer(S, id, options)

__close(S, id, fromPopstate) ==
    IF id \notin Containers \/ id \notin DOMAIN S.__meta THEN S
    ELSE
    LET opener == S.__meta[id].opener
        duration == S.__meta[id].duration
        data == S.__meta[id].data
        S1 == dispatch([S EXCEPT !.__transitioning = TRUE],
                       "wab.modal.close", id, data)
        S2 == [S1 EXCEPT !.classOpen[id] = FALSE,
                         !.overflow = IF Len(S1.__stack) = 0 THEN "" ELSE @]
        h == S2.__wabModalClickHandler[id]
        S3 == IF h # 0
              THEN [S2 EXCEPT !.listeners[id] = RemoveAt(@, h),
                              !.__wabModalClickHandler[id] = 0]
              ELSE S2
        S4 == IF ~fromPopstate
              THEN [S3 EXCEPT !.pendingBacks = @ + 1]
              ELSE S3
    IN  setTimeout(S4, "closed", id, duration, FALSE, opener, data)

\* __closeTop without its test of `closable`
closeTopAnyway(S, fromPopstate) ==
    IF Len(S.__stack) > 0
    THEN __close(S, S.__stack[Len(S.__stack)], fromPopstate)
    ELSE S

__closeTop(S, fromPopstate) ==
    IF Len(S.__stack) > 0
    THEN LET topModalId == S.__stack[Len(S.__stack)]
         IN  IF topModalId \in DOMAIN S.__meta
                  => S.__meta[topModalId].closable # FALSE
             THEN __close(S, topModalId, fromPopstate)
             ELSE S
    ELSE S

close(S, id) == __close(S, id, FALSE)

closeTop(S) == __closeTop(S, FALSE)

\* stack.reverse().forEach(id => close(id)), over the snapshot `ids`
RECURSIVE forEachClose(_, _)
forEachClose(S, ids) ==
    IF ids = <<>> THEN S
    ELSE forEachClose(close(S, Head(ids)), Tail(ids))

closeAll(S) ==
    LET stack == S.__stack
    IN  forEachClose(S, Reverse(stack))

getData(S, id) ==
    IF id \in DOMAIN S.__meta /\ Truthy(S.__meta[id].data)
    THEN S.__meta[id].data
    ELSE "null"

\* the "keydown" listener of the document
keydown(S, key) ==
    IF ~S.__transitioning /\ key = "Escape" THEN closeTop(S) ELSE S

\* the "popstate" listener calling closeTop(), which answers the close
\* with a history.back() of its own
popstateClosesTop(S) ==
    IF ~S.__popped /\ Len(S.__stack) > 0
    THEN LET S1 == __closeTop(S, FALSE)
         IN  [S1 EXCEPT !.__popped = (Len(S1.__stack) = 0)]
    ELSE S

\* the "popstate" listener of the window
popstate(S) ==
    IF ~S.__popped /\ Len(S.__stack) > 0
    THEN LET S1 == __closeTop(S, TRUE)
         IN  [S1 EXCEPT !.__popped = (Len(S1.__stack) = 0)]
    ELSE S

\* clickHandler of the open() call that captured backdropClose, for a
\* click event whose target is `target`
clickHandler(S, id, backdropClose, target) ==
    IF target = "backdrop" /\ backdropClose THEN close(S, id) ELSE S

\* A click event reaching the backdrop of id: the listeners attached when
\* the event is dispatched run in the order they were added; one removed
\* by an earlier listener of the same event does not run. (A close can
\* only remove the recorded handler, which open makes the last one, so
\* listener i is still attached iff the list still has i elements.)
RECURSIVE runListeners(_, _, _, _, _)
runListeners(S, id, snapshot, i, target) ==
    IF i > Len(snapshot) THEN S
    ELSE IF i > Len(S.listeners[id])
         THEN runListeners(S, id, snapshot, i + 1, target)
         ELSE runListeners(clickHandler(S, id, snapshot[i], target),
                           id, snapshot, i + 1, target)

click(S, id, target) ==
    runListeners(S, id, S.listeners[id], 1, target)

\* the callback of open() without its first line
openedKeepsFlag(S, t) ==
    LET S2 == IF t.focus /\ t.id \in S.focusable
              THEN [S EXCEPT !.activeElement = t.id]
              ELSE S
    IN  dispatch(S2, "wab.modal.opened", t.id, t.data)

\* the callback open() hands to setTimeout
openedCallback(S, t) ==
    LET S1 == [S EXCEPT !.__transitioning = FALSE]
        S2 == IF t.focus /\ t.id \in S.focusable
              THEN [S1 EXCEPT !.activeElement = t.id]
              ELSE S1
    IN  dispatch(S2, "wab.modal.opened", t.id, t.data)

\* the callback of __close() without its `delete __meta[id]`
closedKeepsMeta(S, t) ==
    LET idx == indexOf(S.__stack, t.id)
        S1 == [S EXCEPT !.__transitioning = FALSE,
                        !.__stack = IF idx > 0 THEN RemoveAt(@, idx) ELSE @]
        S2 == IF t.opener # "null" /\ Len(S1.__stack) = 0
              THEN [S1 EXCEPT !.activeElement = t.opener]
              ELSE S1
    IN  dispatch(S2, "wab.modal.closed", t.id, t.data)

\* the callback of __close() restoring the focus whatever the stack holds
closedFocusesAlways(S, t) ==
    LET idx == indexOf(S.__stack, t.id)
        S1 == [S EXCEPT !.__transitioning = FALSE,
                        !.__meta = [k \in DOMAIN @ \ {t.id} |-> @[k]],
                        !.__stack = IF idx > 0 THEN RemoveAt(@, idx) ELSE @]
        S2 == IF t.opener # "null"
              THEN [S1 EXCEPT !.activeElement = t.opener]
              ELSE S1
    IN  dispatch(S2, "wab.modal.closed", t.id, t.data)

\* the callback __close() hands to setTimeout
closedCallback(S, t) ==
    LET idx == indexOf(S.__stack, t.id)
        S1 == [S EXCEPT !.__transitioning = FALSE,
                        !.__meta = [k \in DOMAIN @ \ {t.id} |-> @[k]],
                        !.__stack = IF idx > 0 THEN RemoveAt(@, idx) ELSE @]
        S2 == IF t.opener # "null" /\ Len(S1.__stack) = 0
              THEN [S1 EXCEPT !.activeElement = t.opener]
              ELSE S1
    IN  dispatch(S2, "wab.modal.closed", t.id, t.data)

\* ------------------------------------------------- the browser

\* Timer i may fire next: no timer scheduled before it has a duration that
\* is not longer (that one expires first, or at the same time and is run
\* first). The time between two tasks is arbitrary, so every other order
\* of expiry is possible.
CanFire(S, i) ==
    \A j \in 1..(i - 1) : S.timers[j].duration > S.timers[i].duration

fire(S, i) ==
    LET t == S.timers[i]
        S1 == [S EXCEPT !.timers = RemoveAt(@, i)]
    IN  IF t.kind = "opened" THEN openedCallback(S1, t)
        ELSE closedCallback(S1, t)

\* One queued traversal by -1 runs and lands on an entry of this document:
\* the entry open() pushed is left and "popstate" is delivered.
traverseBack(S) ==
    popstate([S EXCEPT !.pendingBacks = @ - 1,
                       !.histDepth = IF @ > 0 THEN @ - 1 ELSE 0])

\* The user's back gesture: a traversal by -1 that no code asked for.
userBack(S) ==
    popstate([S EXCEPT !.histDepth = @ - 1])

\* ------------------------------------------------- observation

\* A state with nothing under way: no timer pending, no traversal queued.
Quiescent(S) == S.timers = <<>> /\ S.pendingBacks = 0

NoDuplicates(s) == \A i, j \in 1..Len(s) : s[i] = s[j] => i = j

\* Every modal of the stack is open and nothing else is: the stack holds
\* distinct ids, each with its metadata entry and shown, nothing is under
\* way, and the history holds one entry per modal.
Settled(S) ==
    /\ Quiescent(S)
    /\ NoDuplicates(S.__stack)
    /\ DOMAIN S.__meta = Range(S.__stack)
    /\ \A c \in Containers : S.classOpen[c] <=> c \in Range(S.__stack)
    /\ S.histDepth = Len(S.__stack)

NoCounts == [c \in Containers |-> [close |-> 0, closed |-> 0]]

Untracked ==
    [op |-> "none", id |-> "none", stack |-> <<>>, settled |-> FALSE,
     counts |-> NoCounts]

\* the events of S.dispatched named `name`, counted per container
Count(S, name, c) ==
    Cardinality({i \in 1..Len(S.dispatched) :
                    S.dispatched[i].name = name /\ S.dispatched[i].id = c})

Counted(S, counts) ==
    [c \in Containers |->
        [close |-> counts[c].close + Count(S, "wab.modal.close", c),
         closed |-> counts[c].closed + Count(S, "wab.modal.closed", c)]]

\* The calls whose consequences the properties below follow when they are
\* made on a settled page.
TrackedOps == {"closeAll", "keydown", "close", "userBack"}

\* `track` after the call op(id) that took the present state to S: on a
\* settled page, the call, the stack it found and the close / closed events
\* dispatched since, the call's own included; of a closeAll on any other
\* page, the call alone.
Tracked(op, id, S) ==
    IF op \in TrackedOps /\ Settled(State)
    THEN [op |-> op, id |-> id, stack |-> __stack, settled |-> TRUE,
          counts |-> Counted(S, NoCounts)]
    ELSE IF op = "closeAll"
    THEN [Untracked EXCEPT !.op = op]
    ELSE Untracked

\* `track` after a timer or a traversal took the present state to S
Followed(S) ==
    IF track.settled
    THEN [track EXCEPT !.counts = Counted(S, @)]
    ELSE track

\* ------------------------------------------------------- the steps

\* The state after the script has run, on a page whose modals hold the
\* focusable elements F.
InitOn(F) ==
    /\ __stack = <<>>
    /\ __meta = [k \in {} |-> NoOptions]
    /\ __popped = FALSE
    /\ __transitioning = FALSE
    /\ timers = <<>>
    /\ histDepth = 0
    /\ pendingBacks = 0
    /\ zIndex = [c \in Containers |-> 0]
    /\ classOpen = [c \in Containers |-> FALSE]
    /\ overflow = ""
    /\ listeners = [c \in Containers |-> <<>>]
    /\ __wabModalClickHandler = [c \in Containers |-> 0]
    /\ activeElement = "body"
    /\ focusable = F
    /\ opens = 0
    /\ track = Untracked

\* A page whose modals hold nothing to focus: the focus stays on the body.
Init == InitOn({})

\* A page where some modals hold a focusable element and some do not.
InitFocus == \E F \in SUBSET Containers : InitOn(F)

\* The step to program state S fits the bounds of the model.
Fits(S) ==
    /\ Len(S.timers) <= MaxTimers
    /\ S.pendingBacks <= MaxBacks

\* A task the page or the user starts: it runs to completion.
External(op, id, S) ==
    /\ Fits(S)
    /\ Becomes(S)
    /\ track' = Tracked(op, id, S)

\* A task the program itself caused earlier: a timer, a traversal.
Internal(op, id, S) ==
    /\ Fits(S)
    /\ Becomes(S)
    /\ track' = Followed(S)

\* open(id, options), the n-th call at most that finds its container
Open(id, options, n) ==
    /\ id \in Containers => opens < n
    /\ External("open", id, open(State, id, options))
    /\ opens' = IF id \in Containers THEN opens + 1 ELSE opens

Close(id) ==
    /\ External("close", id, close(State, id))
    /\ UNCHANGED opens

CloseTop ==
    /\ External("closeTop", "none", closeTop(State))
    /\ UNCHANGED opens

CloseAll ==
    /\ External("closeAll", "none", closeAll(State))
    /\ UNCHANGED opens

\* getData(id) returns a value and assigns nothing.
GetData(id) ==
    /\ getData(State, id) \in Payloads
    /\ UNCHANGED vars

KeyDown(key) ==
    /\ External("keydown", key, keydown(State, key))
    /\ UNCHANGED opens

Click(id, target) ==
    /\ External("click", id, click(State, id, target))
    /\ UNCHANGED opens

UserBack ==
    /\ histDepth > 0
    /\ External("userBack", "none", userBack(State))
    /\ UNCHANGED opens

TimerFires(i) ==
    /\ CanFire(State, i)
    /\ Internal(timers[i].kind, timers[i].id, fire(State, i))
    /\ UNCHANGED opens

\* A queued history.back() runs and "popstate" is delivered: an entry
\* pushed by open is left, or, with none of them left, an earlier entry of
\* the same document is reached.
Popstate ==
    /\ pendingBacks > 0
    /\ Internal("popstate", "none", traverseBack(State))
    /\ UNCHANGED opens

\* A queued history.back() runs with no entry pushed by open left and no
\* earlier entry of this document: nothing is delivered.
BackAtStart ==
    /\ pendingBacks > 0
    /\ histDepth = 0
    /\ Internal("back", "none", [State EXCEPT !.pendingBacks = @ - 1])
    /\ UNCHANGED opens

\* The tasks of the event loop, with at most n calls of open that find
\* their container, drawing their options from Options.
NextWithin(Options, n) ==
    \/ \E id \in Ids, options \in Options : Open(id, options, n)
    \/ \E id \in Ids : Close(id)
    \/ CloseTop
    \/ CloseAll
    \/ \E id \in Ids : GetData(id)
    \/ \E key \in Keys : KeyDown(key)
    \/ \E id \in Containers, target \in ClickTargets : Click(id, target)
    \/ UserBack
    \/ \E i \in 1..Len(timers) : TimerFires(i)
    \/ Popstate
    \/ BackAtStart

NextOver(Options) == NextWithin(Options, MaxOpens)

Next == NextOver(OptionSets)

Spec == Init /\ [][Next]_vars

NextData == NextOver(DataOptionSets)

SpecData == Init /\ [][NextData]_vars

NextFocus == NextOver(FocusOptionSets)

SpecFocus == InitFocus /\ [][NextFocus]_vars

\* One more call of open, all of them with the default options: a modal
\* can be reopened while another one stays open.
NextReopen == NextWithin({NoOptions}, MaxOpens + 1)

SpecReopen == Init /\ [][NextReopen]_vars

\* ------------------------------------------------------- the claims

Top(s) == s[Len(s)]

\* C1: the stack holds as many ids as the metadata table has entries, and
\* every id of the stack has an entry.
StackMatchesMeta ==
    /\ Len(__stack) = Cardinality(DOMAIN __meta)
    /\ Range(__stack) \subseteq DOMAIN __meta

\* C2: the stack never holds the same id twice.
StackHasNoDuplicates == NoDuplicates(__stack)

\* C3: once closeAll() has been called and every timer and traversal that
\* followed it has run, with no other call in between, the stack is empty.
EmptyAfterCloseAll ==
    (track.op = "closeAll" /\ Quiescent(State)) => __stack = <<>>

\* C4: after closeAll() on a settled page, every id the stack held gets at
\* most one close and one closed event, and exactly one of each once every
\* timer and traversal has run.
OnceEachAfterCloseAll ==
    (track.op = "closeAll" /\ track.settled) =>
        \A c \in Range(track.stack) :
            /\ track.counts[c].close <= 1
            /\ track.counts[c].closed <= 1
            /\ Quiescent(State) =>
                  track.counts[c].close = 1 /\ track.counts[c].closed = 1

\* C5: after one Escape key press on a settled stack of two or more modals,
\* no modal below the topmost gets a close event or leaves the stack.
EscClosesOnlyTop ==
    (track.op = "keydown" /\ track.id = "Escape" /\ track.settled
        /\ Len(track.stack) >= 2) =>
        \A i \in 1..(Len(track.stack) - 1) :
            /\ track.counts[track.stack[i]].close = 0
            /\ track.stack[i] \in Range(__stack)

\* The topmost modal has a metadata entry whose closable is false.
TopNotClosable ==
    /\ Len(__stack) > 0
    /\ Top(__stack) \in DOMAIN __meta
    /\ __meta[Top(__stack)].closable = FALSE

\* C6: while the topmost modal's closable is false, an Escape key press and
\* a closeTop() call change nothing: the stack, the metadata, the flags, the
\* history, the timers and the page are as before and no event is dispatched.
NotClosableTopStays ==
    TopNotClosable =>
        /\ closeTop(State) = State
        /\ keydown(State, "Escape") = State

\* C6 witness: a non-closable modal on top of a closable one, with no
\* transition under way, so that the key press reaches closeTop.
NotClosableTopOverClosable ==
    /\ TopNotClosable
    /\ ~__transitioning
    /\ Quiescent(State)
    /\ Len(__stack) = 2
    /\ __stack[1] \in DOMAIN __meta
    /\ __meta[__stack[1]].closable

\* C7: a click on the backdrop of id starts a close only if the
\* backdropClose stored for id is true, and a click inside the content
\* starts none.
BackdropClickObeysStoredOption ==
    \A id \in Containers :
        /\ click(State, id, "backdrop") # State =>
              id \in DOMAIN __meta /\ __meta[id].backdropClose
        /\ click(State, id, "content") = State

\* C8: a container that is not shown as open has no click listener
\* attached, and one that is has at most one.
NoDanglingClickHandler ==
    \A c \in Containers :
        Len(listeners[c]) <= (IF classOpen[c] THEN 1 ELSE 0)

\* C9: getData(id) returns the payload stored for id by open, whatever its
\* value, and null for an id without an entry.
GetDataReturnsPayload ==
    \A id \in Ids :
        getData(State, id) =
            IF id \in DOMAIN __meta THEN __meta[id].data ELSE "null"

\* C10: open(id) for an id without a container, and close(id) for an id
\* without a container or without a metadata entry, change nothing and
\* dispatch nothing.
MissingTargetIsNoOp ==
    /\ \A id \in Ids \ Containers, options \in OptionSets :
          open(State, id, options) = State
    /\ \A id \in Ids :
          (id \notin Containers \/ id \notin DOMAIN __meta) =>
              close(State, id) = State

\* C10 witness: a modal is open and another container has been opened and
\* has completed its close, so that close finds a container but no entry,
\* while a timer and a traversal are still pending.
ClosedBesideOpen ==
    /\ \E c \in Containers :
          /\ c \notin DOMAIN __meta
          /\ zIndex[c] > 0
    /\ __stack # <<>>
    /\ DOMAIN __meta # {}
    /\ timers # <<>>

\* The pending timers of kind `kind`, by their place in the queue.
Pending(kind) == {i \in 1..Len(timers) : timers[i].kind = kind}

\* C11: the events of an id come in the order open, opened, close, closed:
\* modal.close of an id is not dispatched while the modal.opened of the same
\* id is still to come, that is, no timer of a close is queued behind the
\* pending timer of an open of the same id.
CloseWaitsForOpened ==
    \A i \in Pending("opened"), j \in Pending("closed") :
        (i < j) => timers[i].id # timers[j].id

\* C12: with no timer pending and no traversal queued, the history holds as
\* many entries pushed by open as the stack holds ids.
HistoryMatchesStack ==
    Quiescent(State) => histDepth = Len(__stack)

\* C13: with no timer pending, no traversal queued and the stack empty, the
\* body scrolls again; and the scroll is not restored while the stack holds
\* a modal.
ScrollFollowsStack ==
    /\ (Quiescent(State) /\ __stack = <<>>) => overflow = ""
    /\ (__stack # <<>>) => overflow = "hidden"

\* C14: of two modals of a stack that holds no id twice, the later one has
\* the greater z-index.
LaterIsHigher ==
    NoDuplicates(__stack) =>
        \A i, j \in 1..Len(__stack) :
            (i < j) => zIndex[__stack[i]] < zIndex[__stack[j]]

\* C15: an id with a metadata entry is in the stack, and the close timer of
\* an id leaves no entry for it.
MetaWithinStack ==
    /\ DOMAIN __meta \subseteq Range(__stack)
    /\ \A i \in Pending("closed") :
          timers[i].id \notin DOMAIN fire(State, i).__meta

\* C15 witness: the close timer of one modal has run, its id has left the
\* stack and the table, and another modal is still open.
ClosedAndGoneBesideOpen ==
    /\ \E c \in Containers :
          /\ zIndex[c] > 0
          /\ c \notin DOMAIN __meta
          /\ c \notin Range(__stack)
    /\ DOMAIN __meta # {}
    /\ Pending("closed") = {}

\* C16: while a timer of an open or of a close is pending, an Escape key
\* press starts no close.
EscWaitsForTimers ==
    timers # <<>> => keydown(State, "Escape") = State

\* C17: after close(id) on a settled page, no other modal gets a close event
\* and id gets one close event.
CloseClosesOnlyItsId ==
    (track.op = "close" /\ track.settled /\ track.id \in Range(track.stack)) =>
        /\ track.counts[track.id].close = 1
        /\ \A c \in Range(track.stack) \ {track.id} :
              track.counts[c].close = 0

\* The topmost modal has a metadata entry whose closable is not false.
TopClosable ==
    /\ Len(__stack) > 0
    /\ Top(__stack) \in DOMAIN __meta
    /\ __meta[Top(__stack)].closable

\* the timer __close(id) schedules in state S
closeTimer(S, id) ==
    [kind |-> "closed", id |-> id, duration |-> S.__meta[id].duration,
     focus |-> FALSE, opener |-> S.__meta[id].opener,
     data |-> S.__meta[id].data]

\* C18: a back gesture of the user, made while the topmost modal is
\* closable, queues no traversal, removes nothing at once and schedules the
\* close timer of the topmost id and no other timer, and that timer removes
\* the topmost id from the stack and no other id; on a settled page, once
\* that timer has run, the stack is the one the gesture found without its
\* topmost id, and until then it is the one the gesture found.
BackGestureClosesTop ==
    /\ (TopClosable /\ histDepth > 0) =>
          LET S == userBack(State)
          IN  /\ S.pendingBacks = pendingBacks
              /\ S.__stack = __stack
              /\ S.timers = Append(timers, closeTimer(State, Top(__stack)))
              /\ S.dispatched =
                    <<[name |-> "wab.modal.close", id |-> Top(__stack),
                       data |-> __meta[Top(__stack)].data]>>
              /\ fire(S, Len(S.timers)).__stack =
                    RemoveAt(__stack, indexOf(__stack, Top(__stack)))
    /\ (track.op = "userBack" /\ track.settled /\ track.stack # <<>>
          /\ track.counts[Top(track.stack)].close > 0) =>
          /\ pendingBacks = 0
          /\ track.counts[Top(track.stack)].close = 1
          /\ \A i \in 1..(Len(track.stack) - 1) :
                track.counts[track.stack[i]].close = 0
          /\ __stack = IF timers = <<>>
                       THEN SubSeq(track.stack, 1, Len(track.stack) - 1)
                       ELSE track.stack

\* C18 witness: the close a back gesture started on a settled stack of two
\* modals has completed: the lower modal is left, and nothing is pending.
BackGestureClosedTop ==
    /\ track.op = "userBack"
    /\ track.settled
    /\ Len(track.stack) = 2
    /\ track.counts[Top(track.stack)].closed = 1
    /\ __stack = <<track.stack[1]>>
    /\ Quiescent(State)

\* C19: when the close timer of a modal runs, the focus goes to the opener
\* recorded for the modal if the stack is empty once the id is removed, and
\* stays where it is if another modal is left, whichever pending close timer
\* runs first.
FocusRestoredIffEmpty ==
    \A i \in Pending("closed") :
        LET S == fire(State, i)
        IN  S.activeElement =
                IF S.__stack = <<>> /\ timers[i].opener # "null"
                THEN timers[i].opener
                ELSE activeElement

\* C19 witness: a close timer is pending whose modal was opened from
\* another element than the focused one, and a modal is left when it runs.
CloseLeavesModalFocused ==
    \E i \in Pending("closed") :
        /\ timers[i].opener # activeElement
        /\ fire(State, i).__stack # <<>>
        /\ fire(State, i).__stack # __stack

\* C20: with no timer of an open or of a close pending, __transitioning is
\* false.
FlagClearWhenIdle ==
    timers = <<>> => ~__transitioning

\* C20 witness: an open and a close have both completed and no timer is
\* pending.
IdleAfterOpenAndClose ==
    /\ timers = <<>>
    /\ \E c \in Containers : zIndex[c] > 0 /\ c \notin Range(__stack)
    /\ \E c \in Containers : classOpen[c] /\ c \in Range(__stack)

====
